---------------------------- MODULE Spec2Model ----------------------------
(***************************************************************************)
(* A model of app.py: the Flask query service over the ns.annotations_terms*)
(* and ns.coordinates tables.  Strings are sequences of one-character      *)
(* strings, so that str.replace, str.split, int() and ILIKE are computed   *)
(* character by character.                                                 *)
(***************************************************************************)
EXTENDS Integers, Sequences, FiniteSets, TLC

(***************************************************************************)
(* Bounds of the model.                                                    *)
(***************************************************************************)
\* number of request threads the WSGI server runs concurrently
NumThreads == 2
\* largest number of rows of ns.annotations_terms
MaxTermRows == 3
\* largest number of rows of ns.coordinates
MaxCoordRows == 2

Threads == 1..NumThreads

(***************************************************************************)
(* Strings.                                                                *)
(***************************************************************************)
Range(s) == {s[i] : i \in 1..Len(s)}

\* str.replace(old, new) for one-character old and new
Replace(s, old, new) == [i \in 1..Len(s) |-> IF s[i] = old THEN new ELSE s[i]]

\* the position of the first sep in s, 0 when there is none
RECURSIVE FindChar(_, _, _)
FindChar(s, sep, i) ==
    IF i > Len(s) THEN 0
    ELSE IF s[i] = sep THEN i
    ELSE FindChar(s, sep, i + 1)

\* str.split(sep) for a one-character sep: always at least one part
RECURSIVE Split(_, _)
Split(s, sep) ==
    LET k == FindChar(s, sep, 1) IN
    IF k = 0 THEN <<s>>
    ELSE <<SubSeq(s, 1, k - 1)>> \o Split(SubSeq(s, k + 1, Len(s)), sep)

DigitValue(c) ==
    CASE c = "0" -> 0 [] c = "1" -> 1 [] c = "2" -> 2 [] c = "3" -> 3
      [] c = "4" -> 4 [] c = "5" -> 5 [] c = "6" -> 6 [] c = "7" -> 7
      [] c = "8" -> 8 [] c = "9" -> 9 [] OTHER -> -1

IsSpace(c) == c = " "

\* str.strip(): int() ignores leading and trailing whitespace
RECURSIVE Strip(_)
Strip(s) ==
    IF s = <<>> THEN s
    ELSE IF IsSpace(s[1]) THEN Strip(Tail(s))
    ELSE IF IsSpace(s[Len(s)]) THEN Strip(SubSeq(s, 1, Len(s) - 1))
    ELSE s

\* the value of a digit string read left to right, -1 when a character is no digit
RECURSIVE DigitsValue(_, _)
DigitsValue(s, acc) ==
    IF s = <<>> THEN acc
    ELSE IF DigitValue(s[1]) < 0 THEN -1
    ELSE DigitsValue(Tail(s), 10 * acc + DigitValue(s[1]))

\* int(s): optional surrounding whitespace, an optional sign, one digit or more;
\* anything else raises ValueError
ParseInt(s) ==
    LET t == Strip(s)
        signed == t # <<>> /\ t[1] \in {"-", "+"}
        digits == IF signed THEN Tail(t) ELSE t
        v == IF digits = <<>> THEN -1 ELSE DigitsValue(digits, 0)
    IN  IF v < 0 THEN [ok |-> FALSE, val |-> 0]
        ELSE [ok |-> TRUE, val |-> IF signed /\ t[1] = "-" THEN 0 - v ELSE v]

DigitChar(d) ==
    CASE d = 0 -> "0" [] d = 1 -> "1" [] d = 2 -> "2" [] d = 3 -> "3"
      [] d = 4 -> "4" [] d = 5 -> "5" [] d = 6 -> "6" [] d = 7 -> "7"
      [] d = 8 -> "8" [] d = 9 -> "9"

RECURSIVE NatStr(_)
NatStr(n) == IF n < 10 THEN <<DigitChar(n)>> ELSE NatStr(n \div 10) \o <<DigitChar(n % 10)>>

\* the f-string conversion of an int
IntStr(n) == IF n < 0 THEN <<"-">> \o NatStr(0 - n) ELSE NatStr(n)


\* the characters the model uses, in code-point order
Ascii == <<" ", "%", "+", "-", "0", "1", "2", "3", "4", "5", "6", "7", "8", "9",
           "A", "B", "_", "a", "b", "c", "d", "e", "f", "i", "m", "r", "s", "t", "x">>

CharCode(c) == CHOOSE i \in 1..Len(Ascii) : Ascii[i] = c

\* case folding of ILIKE
Lower(c) == CASE c = "A" -> "a" [] c = "B" -> "b" [] OTHER -> c

\* s < t in the order ORDER BY sorts text by
RECURSIVE LexLess(_, _)
LexLess(s, t) ==
    IF t = <<>> THEN FALSE
    ELSE IF s = <<>> THEN TRUE
    ELSE IF s[1] = t[1] THEN LexLess(Tail(s), Tail(t))
    ELSE CharCode(s[1]) < CharCode(t[1])

\* the orders in which a result set can come back as rows
PermSeqs(S) == {s \in [1..Cardinality(S) -> S] : Range(s) = S}

(***************************************************************************)
(* The database.  A table is a sequence of rows (rows may repeat); NULL is *)
(* SQL's NULL, equal to nothing.                                           *)
(***************************************************************************)
NULL == <<"NULL">>

\* SQL's = under WHERE: a comparison with NULL is not true
SqlEq(x, y) == x # NULL /\ y # NULL /\ x = y

\* term ILIKE pattern, without an escape character in the pattern:
\* % matches any run of characters, _ matches any one character
RECURSIVE LikeMatch(_, _)
LikeMatch(p, s) ==
    IF p = <<>> THEN s = <<>>
    ELSE IF p[1] = "%" THEN
        LikeMatch(Tail(p), s) \/ (s # <<>> /\ LikeMatch(p, Tail(s)))
    ELSE IF p[1] = "_" THEN s # <<>> /\ LikeMatch(Tail(p), Tail(s))
    ELSE s # <<>> /\ Lower(p[1]) = Lower(s[1]) /\ LikeMatch(Tail(p), Tail(s))

ILike(x, pattern) == x # NULL /\ LikeMatch(pattern, x)

Sq(n) == n * n

\* ST_DWithin(geom, point, radius): the distance over the first dims axes
\* is at most radius
ST_DWithin(g, p, radius, dims) ==
    Sq(g[1] - p[1]) + Sq(g[2] - p[2]) + (IF dims = 3 THEN Sq(g[3] - p[3]) ELSE 0)
        <= Sq(radius)

(***************************************************************************)
(* dissociate_by_terms                                                     *)
(***************************************************************************)
PREFIX == <<"t", "e", "r", "m", "s", "_", "a", "b", "s", "t", "r", "a", "c", "t",
            "_", "t", "f", "i", "d", "f", "_", "_">>

\* a faulty variant: the token is prefixed but its underscores are kept
FullTermKeepUnderscore(term) == PREFIX \o term

\* f"{PREFIX}{term.replace('_', ' ')}"
FullTerm(term) == PREFIX \o Replace(term, "_", " ")

\* a faulty variant: the second SELECT is not subtracted
TermsSqlNoExcept(table, term_a, term_b) ==
    {table[i].study_id : i \in {j \in 1..Len(table) : SqlEq(table[j].term, term_a)}}

\* SELECT DISTINCT study_id ... WHERE term = :term_a
\* EXCEPT SELECT DISTINCT study_id ... WHERE term = :term_b
TermsSql(table, term_a, term_b) ==
    {table[i].study_id : i \in {j \in 1..Len(table) : SqlEq(table[j].term, term_a)}}
        \ {table[i].study_id : i \in {j \in 1..Len(table) : SqlEq(table[j].term, term_b)}}

(***************************************************************************)
(* dissociate_by_locations                                                 *)
(***************************************************************************)
\* a faulty variant: a segment with too few or too many parts is padded or cut
ParseCoordsAnyArity(coords) ==
    LET parts == Split(coords, "_")
        part(i) == IF i <= Len(parts) THEN ParseInt(parts[i]) ELSE [ok |-> TRUE, val |-> 0]
    IN  IF \E i \in 1..3 : ~part(i).ok THEN [ok |-> FALSE, xyz |-> <<0, 0, 0>>]
        ELSE [ok |-> TRUE, xyz |-> <<part(1).val, part(2).val, part(3).val>>]

\* x, y, z = map(int, coords.split("_")): ValueError when a part is no int
\* or there are not exactly three parts
ParseCoords(coords) ==
    LET parts == Split(coords, "_")
        ints == [i \in 1..Len(parts) |-> ParseInt(parts[i])]
    IN  IF Len(parts) # 3 \/ \E i \in 1..Len(parts) : ~ints[i].ok
        THEN [ok |-> FALSE, xyz |-> <<0, 0, 0>>]
        ELSE [ok |-> TRUE, xyz |-> <<ints[1].val, ints[2].val, ints[3].val>>]

\* a faulty variant: another radius is bound
LocationParamsRadius5(a, b) == [a |-> a, b |-> b, radius |-> 5]

\* params = {"x_a": x_a, ..., "z_b": z_b, "radius": 10}
LocationParams(a, b) == [a |-> a, b |-> b, radius |-> 10]

\* "Invalid coordinate format. Expected x_y_z.", word by word
INVALID_COORDS == <<"Invalid", "coordinate", "format.", "Expected", "x_y_z.">>

\* a faulty variant: the second SELECT is not subtracted
LocationsSqlNoExcept(table, params, dims) ==
    {table[i].study_id : i \in
        {j \in 1..Len(table) : ST_DWithin(table[j].geom, params.a, params.radius, dims)}}

\* SELECT DISTINCT study_id ... WHERE ST_DWithin(geom, point a, :radius)
\* EXCEPT SELECT DISTINCT study_id ... WHERE ST_DWithin(geom, point b, :radius)
LocationsSql(table, params, dims) ==
    {table[i].study_id : i \in
        {j \in 1..Len(table) : ST_DWithin(table[j].geom, params.a, params.radius, dims)}}
     \ {table[i].study_id : i \in
        {j \in 1..Len(table) : ST_DWithin(table[j].geom, params.b, params.radius, dims)}}

\* f"{x}_{y}_{z}"
CoordStr(p) == IntStr(p[1]) \o <<"_">> \o IntStr(p[2]) \o <<"_">> \o IntStr(p[3])

(***************************************************************************)
(* find_terms                                                              *)
(***************************************************************************)
\* f"%{keyword}%"
Pattern(keyword) == <<"%">> \o keyword \o <<"%">>

\* SELECT DISTINCT term ... WHERE term ILIKE :pattern ORDER BY term
FindTermsSql(table, pattern) ==
    LET found == {table[i].term : i \in {j \in 1..Len(table) : ILike(table[j].term, pattern)}}
    IN  CHOOSE s \in PermSeqs(found) :
            \A i, j \in 1..Len(s) : i < j => LexLess(s[i], s[j])

(***************************************************************************)
(* The state.                                                              *)
(***************************************************************************)
VARIABLES
    DB_URL,             \* os.getenv("DB_URL"): NoUrl when the variable is unset
    engine,             \* the global _engine: 0 is None, else the id of an engine
    created,            \* how many engines create_engine has constructed
    annotations_terms,  \* ns.annotations_terms: rows [study_id, term]
    coordinates,        \* ns.coordinates: rows [study_id, geom]
    metadata,           \* ns.metadata: rows [study_id]
    dims,               \* how many axes the database's ST_DWithin measures over
    pc,                 \* where each request thread is
    req,                \* the request each thread last received
    local,              \* each handler's locals: eng, params, conn
    db_calls,           \* engine, connection and statement calls of each thread's request
    bound,              \* the parameters each thread's request bound into its statement
    checked_out,        \* connections checked out of the pool
    resp                \* the response each thread last sent

vars == <<DB_URL, engine, created, annotations_terms, coordinates, metadata, dims,
          pc, req, local, db_calls, bound, checked_out, resp>>

env == <<DB_URL, annotations_terms, coordinates, metadata, dims>>

NoUrl == [scheme |-> "", rest |-> ""]
Urls == {NoUrl, [scheme |-> "postgres", rest |-> "db"], [scheme |-> "postgresql", rest |-> "db"]}
\* the setting is absent, or it names the database by the legacy scheme
FewUrls == {NoUrl, [scheme |-> "postgres", rest |-> "db"]}

NoReq == [endpoint |-> "none", args |-> <<>>]
NoLocal == [eng |-> 0, params |-> <<>>, conn |-> FALSE]
NoResp == [status |-> 0, by |-> "none", body |-> <<>>]

\* a faulty variant: a missing DB_URL is not noticed
MissingUrlNever(url) == FALSE

\* if not db_url
MissingUrl(url) == url = NoUrl

\* if db_url.startswith("postgres://"): db_url = "postgresql://" + the rest
EngineUrl(url) ==
    IF url.scheme = "postgres" THEN [scheme |-> "postgresql", rest |-> url.rest] ELSE url

\* eng.dialect.name
DialectName(url) == EngineUrl(url).scheme

MISSING_DB_URL == "Missing DB_URL (or DATABASE_URL) environment variable."

\* a faulty variant: the connection is not given back when the block raised
ConnExitLeakOnError(count, raised) == IF raised THEN count ELSE count - 1

\* leaving "with ... as conn": the connection goes back to the pool
ConnExit(count, raised) == count - 1

\* a handler's return value; Flask's answer to abort(); Flask's answer to
\* an exception no handler caught
Returned(status, body) == [status |-> status, by |-> "handler", body |-> body]
Aborted(status, description) ==
    [status |-> status, by |-> "flask", body |-> [description |-> description]]
Unhandled(e) == [status |-> 500, by |-> "flask", body |-> [unhandled |-> e]]

\* except Exception as e: return jsonify({"error": f"Database query failed: {e}"}), 500
QueryFailed(e) == Returned(500, [error |-> <<"Database query failed: ", e>>])

\* test_db's payload after n of its five statements ran
Payload(n) ==
    [ok |-> n = 5, dialect |-> DialectName(DB_URL)]
        @@ (IF n >= 2 THEN "version" :> "PostgreSQL" ELSE <<>>)
        @@ (IF n >= 3 THEN "coordinates_count" :> Len(coordinates) ELSE <<>>)
        @@ (IF n >= 4 THEN "metadata_count" :> Len(metadata) ELSE <<>>)
        @@ (IF n >= 5 THEN "annotations_terms_count" :> Len(annotations_terms) ELSE <<>>)

\* the response to an exception raised inside a handler's try block
Caught(endpoint, e) ==
    IF endpoint = "test_db"
    THEN Returned(500, Payload(0) @@ ("error" :> e))
    ELSE QueryFailed(e)

\* the handler is left with response r: its locals are gone
Send(t, r) ==
    /\ resp' = [resp EXCEPT ![t] = r]
    /\ pc' = [pc EXCEPT ![t] = "idle"]
    /\ local' = [local EXCEPT ![t] = NoLocal]

\* a request arrives at an idle thread
Receive(t, endpoint, args) ==
    /\ pc[t] = "idle"
    /\ req' = [req EXCEPT ![t] = [endpoint |-> endpoint, args |-> args]]
    /\ db_calls' = [db_calls EXCEPT ![t] = 0]
    /\ bound' = [bound EXCEPT ![t] = <<>>]

\* the handler goes on to get_engine() with its locals set; its response
\* is not there yet
Proceed(t, params) ==
    /\ pc' = [pc EXCEPT ![t] = "get_engine"]
    /\ local' = [local EXCEPT ![t] = [eng |-> 0, params |-> params, conn |-> FALSE]]
    /\ resp' = [resp EXCEPT ![t] = NoResp]

InitCommon ==
    /\ engine = 0
    /\ created = 0
    /\ pc = [t \in Threads |-> "idle"]
    /\ req = [t \in Threads |-> NoReq]
    /\ local = [t \in Threads |-> NoLocal]
    /\ db_calls = [t \in Threads |-> 0]
    /\ bound = [t \in Threads |-> <<>>]
    /\ checked_out = 0
    /\ resp = [t \in Threads |-> NoResp]

(***************************************************************************)
(* The handlers.  A handler that touches the database runs in steps, since *)
(* other request threads run between them: the request is received and its *)
(* path parameters handled, get_engine() tests _engine, get_engine()       *)
(* constructs the engine, the connection is acquired, and the statement    *)
(* runs and the with block is left.                                        *)
(***************************************************************************)
\* health(): return "<p>Server working!</p>"
Health(t) ==
    /\ Receive(t, "health", <<>>)
    /\ Send(t, Returned(200, "<p>Server working!</p>"))
    /\ UNCHANGED <<env, engine, created, checked_out>>

\* show_img(): send_file("amygdala.gif"), which raises when the file is not there
ShowImg(t) ==
    /\ Receive(t, "show_img", <<>>)
    /\ \/ Send(t, Returned(200, "image/gif"))
       \/ Send(t, Unhandled("FileNotFoundError"))
    /\ UNCHANGED <<env, engine, created, checked_out>>

\* dissociate_by_terms, lines 52-64: the two full terms are computed
DissociateByTerms(t, term_a, term_b) ==
    /\ Receive(t, "dissociate_terms", <<term_a, term_b>>)
    /\ Proceed(t, [term_a |-> FullTerm(term_a), term_b |-> FullTerm(term_b)])
    /\ UNCHANGED <<env, engine, created, checked_out>>

\* dissociate_by_locations, lines 89-108: both segments are parsed, and a
\* ValueError from either aborts with 400
DissociateByLocations(t, coords_a, coords_b) ==
    LET a == ParseCoords(coords_a)
        b == ParseCoords(coords_b)
    IN  /\ Receive(t, "dissociate_locations", <<coords_a, coords_b>>)
        /\ IF a.ok /\ b.ok
           THEN Proceed(t, LocationParams(a.xyz, b.xyz))
           ELSE Send(t, Aborted(400, INVALID_COORDS))
        /\ UNCHANGED <<env, engine, created, checked_out>>

\* find_terms, line 135
FindTerms(t, keyword) ==
    /\ Receive(t, "find_terms", <<keyword>>)
    /\ Proceed(t, <<>>)
    /\ UNCHANGED <<env, engine, created, checked_out>>

\* test_db, line 154
TestDb(t) ==
    /\ Receive(t, "test_db", <<>>)
    /\ Proceed(t, <<>>)
    /\ UNCHANGED <<env, engine, created, checked_out>>

\* get_engine(), lines 16-17: if _engine is not None: return _engine
GetEngine(t) ==
    /\ pc[t] = "get_engine"
    /\ db_calls' = [db_calls EXCEPT ![t] = @ + 1]
    /\ IF engine # 0
       THEN /\ local' = [local EXCEPT ![t].eng = engine]
            /\ pc' = [pc EXCEPT ![t] = "connect"]
       ELSE /\ pc' = [pc EXCEPT ![t] = "create_engine"]
            /\ UNCHANGED local
    /\ UNCHANGED <<env, engine, created, req, bound, checked_out, resp>>

\* get_engine(), lines 18-27, run by a thread that found _engine to be None.
\* The RuntimeError is raised inside the try block of every handler but
\* test_db, which calls get_engine() before its try.
CreateEngine(t) ==
    /\ pc[t] = "create_engine"
    /\ IF MissingUrl(DB_URL)
       THEN /\ Send(t, IF req[t].endpoint = "test_db"
                       THEN Unhandled(MISSING_DB_URL)
                       ELSE Caught(req[t].endpoint, MISSING_DB_URL))
            /\ UNCHANGED <<engine, created>>
       ELSE /\ created' = created + 1
            /\ engine' = created + 1
            /\ local' = [local EXCEPT ![t].eng = created + 1]
            /\ pc' = [pc EXCEPT ![t] = "connect"]
            /\ UNCHANGED resp
    /\ UNCHANGED <<env, req, db_calls, bound, checked_out>>

\* with get_engine().connect() as conn / with eng.begin() as conn: a
\* connection is checked out of the pool, or connecting raises
Connect(t) ==
    /\ pc[t] = "connect"
    /\ db_calls' = [db_calls EXCEPT ![t] = @ + 1]
    /\ \/ /\ checked_out' = checked_out + 1
          /\ local' = [local EXCEPT ![t].conn = TRUE]
          /\ pc' = [pc EXCEPT ![t] = "execute"]
          /\ UNCHANGED resp
       \/ /\ Send(t, Caught(req[t].endpoint, "OperationalError"))
          /\ UNCHANGED checked_out
    /\ UNCHANGED <<env, engine, created, req, bound>>

\* the body of the with block: the statement runs with its parameters and
\* the block is left, which gives the connection back whether the body
\* returned or raised
Leave(t, params, raised, r) ==
    /\ db_calls' = [db_calls EXCEPT ![t] = @ + 1]
    /\ bound' = [bound EXCEPT ![t] = params]
    /\ checked_out' = ConnExit(checked_out, raised)
    /\ Send(t, r)
    /\ UNCHANGED <<env, engine, created, req>>

\* what the body of a with block can raise: the statement fails, or jsonify does
QueryErrors == {"ProgrammingError", "TypeError"}

\* dissociate_by_terms, lines 67-80
ExecuteTerms(t) ==
    /\ pc[t] = "execute"
    /\ req[t].endpoint = "dissociate_terms"
    /\ \/ \E studies \in PermSeqs(TermsSql(annotations_terms,
                                           local[t].params.term_a, local[t].params.term_b)) :
            Leave(t, local[t].params, FALSE, Returned(200,
                [term_a_not_b |-> [term_a |-> req[t].args[1],
                                   term_b |-> req[t].args[2],
                                   count |-> Len(studies),
                                   studies |-> studies]]))
       \/ \E e \in QueryErrors : Leave(t, local[t].params, TRUE, QueryFailed(e))

\* dissociate_by_locations, lines 110-124
ExecuteLocations(t) ==
    /\ pc[t] = "execute"
    /\ req[t].endpoint = "dissociate_locations"
    /\ \/ \E studies \in PermSeqs(LocationsSql(coordinates, local[t].params, dims)) :
            Leave(t, local[t].params, FALSE, Returned(200,
                [location_a_not_b |-> [location_a |-> CoordStr(local[t].params.a),
                                       location_b |-> CoordStr(local[t].params.b),
                                       radius_mm |-> local[t].params.radius,
                                       count |-> Len(studies),
                                       studies |-> studies]]))
       \/ \E e \in QueryErrors : Leave(t, local[t].params, TRUE, QueryFailed(e))

\* find_terms, lines 137-147
ExecuteFindTerms(t) ==
    /\ pc[t] = "execute"
    /\ req[t].endpoint = "find_terms"
    /\ \/ LET terms == FindTermsSql(annotations_terms, Pattern(req[t].args[1])) IN
            Leave(t, [pattern |-> Pattern(req[t].args[1])], FALSE, Returned(200,
                [keyword |-> req[t].args[1],
                 match_count |-> Len(terms),
                 matching_terms |-> terms]))
       \/ \E e \in QueryErrors :
            Leave(t, [pattern |-> Pattern(req[t].args[1])], TRUE, QueryFailed(e))

\* test_db, lines 155-167: n of the five statements run before one raises
ExecuteTestDb(t) ==
    /\ pc[t] = "execute"
    /\ req[t].endpoint = "test_db"
    /\ \/ Leave(t, <<>>, FALSE, Returned(200, Payload(5)))
       \/ \E n \in 0..4 :
            Leave(t, <<>>, TRUE, Returned(500, Payload(n) @@ ("error" :> "ProgrammingError")))

(***************************************************************************)
(* The inputs: path parameters, and the rows the tables are filled from.   *)
(***************************************************************************)
StudyIds == {"s1", "s2"}

T_a == PREFIX \o <<"a">>
T_a_b == PREFIX \o <<"a", " ", "b">>
StoredTerms == {T_a, T_a_b, NULL}

\* the tables of at most max rows over a set of rows
Tables(rows, max) == UNION {[1..n -> rows] : n \in 0..max}

TermRows == [study_id : StudyIds, term : StoredTerms]
Geoms == {<<5, 0, 0>>, <<-6, 8, 0>>}
CoordRows == [study_id : StudyIds, geom : Geoms]

TermTokens == {<<"a">>, <<"a", "_", "b">>, <<"a", " ", "b">>}
Keywords == {<<"A", " ", "B">>, <<"a", "_", "b">>, <<"%">>, <<"x">>}
CoordSegments ==
    {<<"0", "_", "0", "_", "0">>,
     <<"1", "2", "_", "0", "_", "0">>,
     <<"-", "3", "_", " ", "4", "_", "+", "5">>,
     <<"1", "_", "2">>,
     <<"a", "_", "b", "_", "c">>,
     <<"1", "_", "2", "_", "3", "_", "4">>}

\* the inputs of the specification of the whole service
FewTokens == {<<"a", "_", "b">>}
FewSegmentPairs ==
    {<<<<"0", "_", "0", "_", "0">>, <<"0", "_", "0", "_", "0">>>>,
     <<<<"0", "_", "0", "_", "0">>, <<"1", "_", "2">>>>}

(***************************************************************************)
(* The service: every endpoint, NumThreads request threads.                *)
(***************************************************************************)
Init ==
    /\ InitCommon
    /\ DB_URL \in FewUrls
    /\ annotations_terms = <<[study_id |-> "s1", term |-> T_a_b],
                             [study_id |-> "s2", term |-> T_a]>>
    /\ coordinates = <<[study_id |-> "s1", geom |-> <<5, 0, 0>>]>>
    /\ metadata = <<[study_id |-> "s1"]>>
    /\ dims = 2

Next ==
    \E t \in Threads :
        \/ Health(t)
        \/ ShowImg(t)
        \/ \E a, b \in FewTokens : DissociateByTerms(t, a, b)
        \/ \E ab \in FewSegmentPairs : DissociateByLocations(t, ab[1], ab[2])
        \/ \E k \in FewTokens : FindTerms(t, k)
        \/ TestDb(t)
        \/ GetEngine(t)
        \/ CreateEngine(t)
        \/ Connect(t)
        \/ ExecuteTerms(t)
        \/ ExecuteLocations(t)
        \/ ExecuteFindTerms(t)
        \/ ExecuteTestDb(t)

Spec == Init /\ [][Next]_vars

(***************************************************************************)
(* The two term endpoints, one request at a time, over every table.        *)
(***************************************************************************)
InitTerms ==
    /\ InitCommon
    /\ DB_URL \in Urls
    /\ annotations_terms \in Tables(TermRows, MaxTermRows)
    /\ coordinates = <<>>
    /\ metadata = <<>>
    /\ dims = 2

NextTerms ==
    \/ \E a, b \in TermTokens : DissociateByTerms(1, a, b)
    \/ \E k \in Keywords : FindTerms(1, k)
    \/ GetEngine(1)
    \/ CreateEngine(1)
    \/ Connect(1)
    \/ ExecuteTerms(1)
    \/ ExecuteFindTerms(1)

SpecTerms == InitTerms /\ [][NextTerms]_vars

(***************************************************************************)
(* The location endpoint, one request at a time, over every table.         *)
(***************************************************************************)
InitLocations ==
    /\ InitCommon
    /\ DB_URL \in Urls
    /\ annotations_terms = <<>>
    /\ metadata = <<>>
    /\ coordinates \in Tables(CoordRows, MaxCoordRows)
    /\ dims \in {2, 3}

NextLocations ==
    \/ \E a, b \in CoordSegments : DissociateByLocations(1, a, b)
    \/ GetEngine(1)
    \/ CreateEngine(1)
    \/ Connect(1)
    \/ ExecuteLocations(1)

SpecLocations == InitLocations /\ [][NextLocations]_vars

(***************************************************************************)
(* What the claims speak of, stated apart from the handlers.               *)
(***************************************************************************)
DbEndpoints == {"dissociate_terms", "dissociate_locations", "find_terms", "test_db"}

Answered(t, endpoint) == req[t].endpoint = endpoint /\ resp[t] # NoResp
Succeeded(t, endpoint) == req[t].endpoint = endpoint /\ resp[t].status = 200

\* a token normalized: every underscore a space, after the fixed prefix
Normalized(token) ==
    [i \in 1..(Len(PREFIX) + Len(token)) |->
        IF i <= Len(PREFIX) THEN PREFIX[i]
        ELSE IF token[i - Len(PREFIX)] = "_" THEN " "
        ELSE token[i - Len(PREFIX)]]

\* the study ids having a row whose term is the given one
StudiesOfTerm(term) ==
    {r.study_id : r \in {x \in Range(annotations_terms) : x.term = term}}

NoDuplicates(s) == \A i, j \in 1..Len(s) : s[i] = s[j] => i = j

\* a part that reads as a signed integer: an optional sign, then digits only
SignedInteger(part) ==
    LET p == Strip(part)
        digits == IF p # <<>> /\ p[1] \in {"+", "-"} THEN Tail(p) ELSE p
    IN  digits # <<>> /\ \A i \in 1..Len(digits) : digits[i] \in
            {"0", "1", "2", "3", "4", "5", "6", "7", "8", "9"}

\* a path segment of exactly three parts, each a signed integer
WellFormed(segment) ==
    /\ Cardinality({i \in 1..Len(segment) : segment[i] = "_"}) = 2
    /\ \A part \in Range(Split(segment, "_")) : SignedInteger(part)

\* the study ids having a stored point within the radius of point p
StudiesNear(p, radius) ==
    {r.study_id : r \in {x \in Range(coordinates) : ST_DWithin(x.geom, p, radius, dims)}}

\* k occurs in s as a literal substring, ignoring case
ContainsIgnoringCase(s, k) ==
    \E i \in 0..(Len(s) - Len(k)) : \A j \in 1..Len(k) : Lower(s[i + j]) = Lower(k[j])

(***************************************************************************)
(* C1: a successful /dissociate/terms/{a}/{b} returns, as a set, the study *)
(* ids with a row whose term is the normalized a minus those with a row    *)
(* whose term is the normalized b, lists no study id twice, and its count  *)
(* is the length of the list.                                              *)
(***************************************************************************)
C1_TermsSetDifference ==
    \A t \in Threads : Succeeded(t, "dissociate_terms") =>
        LET r == resp[t].body.term_a_not_b IN
        /\ Range(r.studies) = StudiesOfTerm(Normalized(req[t].args[1]))
                                \ StudiesOfTerm(Normalized(req[t].args[2]))
        /\ NoDuplicates(r.studies)
        /\ r.count = Len(r.studies)

\* a success whose list is not empty and lacks a study of term a that term b has too
C1_Witness ==
    \E t \in Threads :
        /\ Succeeded(t, "dissociate_terms")
        /\ resp[t].body.term_a_not_b.studies # <<>>
        /\ StudiesOfTerm(Normalized(req[t].args[1]))
             \cap StudiesOfTerm(Normalized(req[t].args[2])) # {}

(***************************************************************************)
(* C9: the string /dissociate/terms binds into the query for a token is    *)
(* the prefix followed by the token with every underscore replaced by one  *)
(* space, and the success response echoes the original tokens.             *)
(***************************************************************************)
C9_NormalizedBoundOriginalEchoed ==
    \A t \in Threads :
        /\ (req[t].endpoint = "dissociate_terms" /\ bound[t] # <<>>) =>
            /\ bound[t].term_a = Normalized(req[t].args[1])
            /\ bound[t].term_b = Normalized(req[t].args[2])
        /\ Succeeded(t, "dissociate_terms") =>
            /\ bound[t] # <<>>
            /\ resp[t].body.term_a_not_b.term_a = req[t].args[1]
            /\ resp[t].body.term_a_not_b.term_b = req[t].args[2]

\* a success for a token with an underscore, which found a study by the spaced term
C9_Witness ==
    \E t \in Threads :
        /\ Succeeded(t, "dissociate_terms")
        /\ "_" \in Range(req[t].args[1])
        /\ resp[t].body.term_a_not_b.term_a # bound[t].term_a
        /\ resp[t].body.term_a_not_b.studies # <<>>

(***************************************************************************)
(* C10: a successful /find_terms/{k} returns exactly the stored terms that *)
(* contain k as a literal substring ignoring case, each once, ascending,   *)
(* with match_count the length of the list; for every keyword, also one    *)
(* with '_' or '%' in it.                                                  *)
(***************************************************************************)
C10_LiteralSubstringMatches ==
    \A t \in Threads : Succeeded(t, "find_terms") =>
        LET r == resp[t].body IN
        /\ Range(r.matching_terms) =
              {x.term : x \in {y \in Range(annotations_terms) :
                                 y.term # NULL /\ ContainsIgnoringCase(y.term, r.keyword)}}
        /\ \A i, j \in 1..Len(r.matching_terms) :
              i < j => LexLess(r.matching_terms[i], r.matching_terms[j])
        /\ r.match_count = Len(r.matching_terms)

(***************************************************************************)
(* C2: when either path segment of /dissociate/locations is not three      *)
(* signed integers joined by '_', the response is HTTP 400 and the request *)
(* makes no database call: no engine, no connection, no statement.         *)
(***************************************************************************)
C2_MalformedCoordinatesRejected ==
    \A t \in Threads :
        (/\ req[t].endpoint = "dissociate_locations"
         /\ ~(WellFormed(req[t].args[1]) /\ WellFormed(req[t].args[2]))) =>
            /\ pc[t] = "idle"
            /\ resp[t].status = 400
            /\ db_calls[t] = 0
            /\ bound[t] = <<>>
            /\ ~local[t].conn

\* a 400 for a well-formed first segment and a malformed second one, sent
\* when an earlier request had already constructed the engine
C2_Witness ==
    \E t \in Threads :
        /\ req[t].endpoint = "dissociate_locations"
        /\ WellFormed(req[t].args[1])
        /\ ~WellFormed(req[t].args[2])
        /\ resp[t].status = 400
        /\ engine # 0

(***************************************************************************)
(* C7: a successful /dissociate/locations/{A}/{B} returns, without         *)
(* duplicates, the study ids with a stored point within distance 10 of A   *)
(* minus those with a stored point within distance 10 of B; when A and B   *)
(* are the same point the list is empty and count is 0.                    *)
(***************************************************************************)
C7_LocationsSetDifference ==
    \A t \in Threads : Succeeded(t, "dissociate_locations") =>
        LET r == resp[t].body.location_a_not_b
            A == ParseCoords(req[t].args[1]).xyz
            B == ParseCoords(req[t].args[2]).xyz
        IN  /\ Range(r.studies) = StudiesNear(A, 10) \ StudiesNear(B, 10)
            /\ NoDuplicates(r.studies)
            /\ r.count = Len(r.studies)
            /\ A = B => r.studies = <<>> /\ r.count = 0

\* a success whose list is not empty and lacks a study that is near A and near B
C7_Witness ==
    \E t \in Threads :
        /\ Succeeded(t, "dissociate_locations")
        /\ resp[t].body.location_a_not_b.studies # <<>>
        /\ StudiesNear(ParseCoords(req[t].args[1]).xyz, 10)
             \cap StudiesNear(ParseCoords(req[t].args[2]).xyz, 10) # {}

(***************************************************************************)
(* C8: every success response of /dissociate/locations has radius_mm 10,   *)
(* the value bound as the radius of the query, and the client-error        *)
(* response for malformed coordinates documents the 10mm radius too.       *)
(***************************************************************************)
StatesRadius(body) ==
    \/ "radius_mm" \in DOMAIN body
    \/ /\ "description" \in DOMAIN body
       /\ \E i \in 1..Len(body.description) :
            body.description[i] \in {"10", "10mm", "radius", "radius_mm"}

C8_RadiusInEveryResponse ==
    \A t \in Threads : Answered(t, "dissociate_locations") =>
        /\ resp[t].status = 200 =>
            /\ resp[t].body.location_a_not_b.radius_mm = 10
            /\ bound[t].radius = 10
        /\ resp[t].status = 400 => StatesRadius(resp[t].body)

(***************************************************************************)
(* C8 as amended: every success response of /dissociate/locations has      *)
(* radius_mm 10, the value bound as the radius of the query; the           *)
(* client-error response for malformed coordinates is the description      *)
(* "Invalid coordinate format. Expected x_y_z." and states no radius.      *)
(***************************************************************************)
C8_RadiusInSuccessResponse ==
    \A t \in Threads : Answered(t, "dissociate_locations") =>
        /\ resp[t].status = 200 =>
            /\ resp[t].body.location_a_not_b.radius_mm = 10
            /\ bound[t].radius = 10
        /\ resp[t].status = 400 =>
            /\ resp[t].body = [description |-> INVALID_COORDS]
            /\ ~StatesRadius(resp[t].body)

\* a success that found a study, its radius_mm the radius the query bound
C8_Witness ==
    \E t \in Threads :
        /\ Succeeded(t, "dissociate_locations")
        /\ resp[t].body.location_a_not_b.studies # <<>>
        /\ resp[t].body.location_a_not_b.radius_mm = bound[t].radius

(***************************************************************************)
(* C3: in every database-touching endpoint a failure while obtaining the   *)
(* engine, connecting or executing is caught inside the handler and        *)
(* answered with HTTP 500 and a JSON error payload, never left to escape   *)
(* the handler; for /test_db the failure payload carries ok:false, the     *)
(* dialect name and an error message.                                      *)
(***************************************************************************)
C3_FailuresCaughtInHandler ==
    \A t \in Threads :
        (req[t].endpoint \in DbEndpoints /\ resp[t].status = 500) =>
            /\ resp[t].by = "handler"
            /\ "error" \in DOMAIN resp[t].body
            /\ req[t].endpoint = "test_db" =>
                /\ resp[t].body.ok = FALSE
                /\ "dialect" \in DOMAIN resp[t].body

(***************************************************************************)
(* C4: under any interleaving of requests that call get_engine() while no  *)
(* engine exists, the engine is constructed at most once and every caller  *)
(* receives that same instance.                                            *)
(***************************************************************************)
C4_EngineConstructedOnce ==
    /\ created <= 1
    /\ \A t \in Threads : local[t].eng # 0 => local[t].eng = engine

(***************************************************************************)
(* C5: a request holds at most one pooled connection at a time and gives   *)
(* it back on every exit path of its handler, so that with every request   *)
(* completed no connection is checked out of the pool.                     *)
(***************************************************************************)
C5_ConnectionsReleased ==
    /\ checked_out = Cardinality({t \in Threads : local[t].conn})
    /\ \A t \in Threads : local[t].conn <=> pc[t] = "execute"
    /\ (\A t \in Threads : pc[t] = "idle") => checked_out = 0

\* every request completed, one whose statement ran and succeeded and one
\* that failed inside the with block
C5_Witness ==
    /\ \A t \in Threads : pc[t] = "idle"
    /\ \E t, u \in Threads :
        /\ db_calls[t] = 3 /\ resp[t].status = 200
        /\ db_calls[u] = 3 /\ resp[u].status = 500
    /\ checked_out = 0

(***************************************************************************)
(* C6: when the database connection string is absent the process never     *)
(* serves a request: no endpoint, / and /img included, answers.            *)
(***************************************************************************)
C6_NoAnswerWithoutUrl ==
    DB_URL = NoUrl => \A t \in Threads : resp[t] = NoResp

(***************************************************************************)
(* C6 as amended: when the database connection string is absent the        *)
(* process still answers: / with 200, a malformed /dissociate/locations    *)
(* request with 400; no engine is ever constructed and no connection       *)
(* checked out, and every other request to a database-touching endpoint    *)
(* is answered with HTTP 500.                                              *)
(***************************************************************************)
C6_NoEngineWithoutUrl ==
    DB_URL = NoUrl =>
        /\ engine = 0
        /\ created = 0
        /\ checked_out = 0
        /\ \A t \in Threads :
            /\ Answered(t, "health") => resp[t].status = 200
            /\ (req[t].endpoint \in DbEndpoints /\ resp[t] # NoResp) =>
                IF resp[t].status = 400
                THEN req[t].endpoint = "dissociate_locations" /\ db_calls[t] = 0
                ELSE resp[t].status = 500

\* the setting absent, / answered with 200 and a database endpoint with 500
C6_Witness ==
    /\ DB_URL = NoUrl
    /\ \E t, u \in Threads :
        /\ Answered(t, "health") /\ resp[t].status = 200
        /\ req[u].endpoint \in DbEndpoints /\ resp[u].status = 500

=============================================================================
